---- MODULE Spec2Model ----
(***************************************************************************)
(* Model of cevio-lib-rs: the COM late-binding layer (com.rs), the VARIANT *)
(* marshaling helpers (variant_ext.rs), the COM lifetime guard             *)
(* (initialize.rs) and the CeVIO facade (lib.rs).                          *)
(*                                                                         *)
(* Three specifications share the module:                                  *)
(*   SpecMarshal  the VariantExt constructors and extractors               *)
(*   SpecCom      the ComObject operations on their own                    *)
(*   Spec         the life cycle and the operations of the CeVIO facade    *)
(***************************************************************************)
EXTENDS Integers, Sequences, FiniteSets

\* ------------------------------------------------------------------ bounds
MaxLen == 2          \* longest text (in code points) given to from_str on its own
MaxText == 1         \* longest text given to the facade or returned by the host
MaxArgs == 3         \* longest argument list given to invoke_method

\* --------------------------------------------------------- native scalars
I32Min == -2147483647 - 1
I32Max == 2147483647
\* 32-bit integers drawn as inputs: boundaries, and values around 0..100
I32Samples == {I32Min, -1, 0, 1, 100, 101, 65536, I32Max}

\* Code points a Rust &str can hold, drawn as inputs: '1', 'a', and U+1F600
\* (outside the basic plane, two UTF-16 units).
CodePoints == {49, 97, 128512}
TextsUpTo(n) == UNION {[1..k -> CodePoints] : k \in 0..n}
Texts == TextsUpTo(MaxLen)
ShortTexts == TextsUpTo(MaxText)

\* ------------------------------------------------------------ UTF-16 text
IsHighSurrogate(u) == u >= 55296 /\ u <= 56319
IsLowSurrogate(u) == u >= 56320 /\ u <= 57343

\* EncodeUnit keeping only the low 16 bits of the code point
EncodeUnit_truncating(c) == <<c % 65536>>

\* char::encode_utf16, as used by BSTR::from(&str)
EncodeUnit(c) ==
    IF c < 65536 THEN <<c>>
    ELSE <<55296 + ((c - 65536) \div 1024), 56320 + ((c - 65536) % 1024)>>

RECURSIVE EncodeUtf16(_)
EncodeUtf16(s) ==
    IF s = <<>> THEN <<>> ELSE EncodeUnit(Head(s)) \o EncodeUtf16(Tail(s))

\* core::char::decode_utf16 with U+FFFD for unpaired surrogates, as used by
\* the Display implementation of BSTR (bstrVal.to_string())
RECURSIVE DecodeUtf16(_)
DecodeUtf16(w) ==
    IF w = <<>> THEN <<>>
    ELSE IF IsHighSurrogate(Head(w)) /\ Len(w) >= 2 /\ IsLowSurrogate(w[2])
         THEN <<65536 + (Head(w) - 55296) * 1024 + (w[2] - 56320)>>
              \o DecodeUtf16(Tail(Tail(w)))
    ELSE IF IsHighSurrogate(Head(w)) \/ IsLowSurrogate(Head(w))
         THEN <<65533>> \o DecodeUtf16(Tail(w))
    ELSE <<Head(w)>> \o DecodeUtf16(Tail(w))

\* ---------------------------------------------------------------- VARIANT
\* VARIANT::default(): VT_EMPTY with a zeroed payload
VariantDefault ==
    [vt |-> "VT_EMPTY", lVal |-> 0, boolVal |-> 0, bstrVal |-> <<>>, parray |-> 0]

null == [VariantDefault EXCEPT !.vt = "VT_NULL"]

from_i32(n) == [VariantDefault EXCEPT !.vt = "VT_I4", !.lVal = n]

from_str(s) == [VariantDefault EXCEPT !.vt = "VT_BSTR", !.bstrVal = EncodeUtf16(s)]

\* VARIANT_BOOL::from(bool): VARIANT_TRUE is -1, VARIANT_FALSE is 0
from_bool(b) == [VariantDefault EXCEPT !.vt = "VT_BOOL", !.boolVal = IF b THEN -1 ELSE 0]

from_safearray(psa) ==
    [VariantDefault EXCEPT !.vt = "VT_ARRAY|VT_VARIANT", !.parray = psa]

\* A VARIANT owns a variable-length payload when VariantClear has something
\* to free: an allocated text or an array.
OwnsPayload(v) ==
    \/ v.vt = "VT_BSTR" /\ v.bstrVal # <<>>
    \/ v.vt = "VT_ARRAY|VT_VARIANT" /\ v.parray # 0

\* ------------------------------------------------- the OLE automation API
VarTags == {"VT_EMPTY", "VT_NULL", "VT_I4", "VT_BOOL", "VT_BSTR", "VT_ARRAY|VT_VARIANT"}

IsDigit(u) == u >= 48 /\ u <= 57

\* a decimal numeral: an optional '-' and at least one digit
IsNumeral(w) ==
    LET d == IF w # <<>> /\ Head(w) = 45 THEN Tail(w) ELSE w
    IN  d # <<>> /\ \A i \in 1..Len(d) : IsDigit(d[i])

RECURSIVE ParseDigits(_, _)
ParseDigits(w, acc) ==
    IF w = <<>> THEN acc ELSE ParseDigits(Tail(w), acc * 10 + (Head(w) - 48))

ParseNumeral(w) ==
    IF Head(w) = 45 THEN 0 - ParseDigits(Tail(w), 0) ELSE ParseDigits(w, 0)

RECURSIVE FormatDigits(_)
FormatDigits(n) ==
    IF n < 10 THEN <<48 + n>> ELSE FormatDigits(n \div 10) \o <<48 + (n % 10)>>

\* the digits of -n for a negative n, without forming -n (I32Min has none)
FormatNegated(n) ==
    LET m == 0 - (n + 1)
        d == ((m % 10) + 1) % 10
        q == (m \div 10) + (IF m % 10 = 9 THEN 1 ELSE 0)
    IN  IF q = 0 THEN <<48 + d>> ELSE FormatDigits(q) \o <<48 + d>>

FormatNumeral(n) == IF n < 0 THEN <<45>> \o FormatNegated(n) ELSE FormatDigits(n)

\* VariantChangeType(&mut new, self, 0, vt): the destination on success is a
\* fresh VARIANT of the requested tag; on failure the destination is left
\* as it was (VT_EMPTY) and the source is never written.
ChangeOk(d) == [hr |-> "S_OK", dest |-> d]
ChangeFail(hr) == [hr |-> hr, dest |-> VariantDefault]

VariantChangeType(src, vt) ==
    IF src.vt = "VT_NULL" \/ src.vt = "VT_ARRAY|VT_VARIANT"
    THEN ChangeFail("DISP_E_TYPEMISMATCH")
    ELSE IF vt = "VT_I4" THEN
        CASE src.vt = "VT_I4" -> ChangeOk(from_i32(src.lVal))
          [] src.vt = "VT_BOOL" -> ChangeOk(from_i32(src.boolVal))
          [] src.vt = "VT_EMPTY" -> ChangeOk(from_i32(0))
          [] src.vt = "VT_BSTR" ->
               IF ~IsNumeral(src.bstrVal) THEN ChangeFail("DISP_E_TYPEMISMATCH")
               ELSE IF ParseNumeral(src.bstrVal) < I32Min
                       \/ ParseNumeral(src.bstrVal) > I32Max
                    THEN ChangeFail("DISP_E_OVERFLOW")
               ELSE ChangeOk(from_i32(ParseNumeral(src.bstrVal)))
    ELSE IF vt = "VT_BOOL" THEN
        CASE src.vt = "VT_BOOL" -> ChangeOk([VariantDefault EXCEPT !.vt = "VT_BOOL", !.boolVal = src.boolVal])
          [] src.vt = "VT_I4" -> ChangeOk(from_bool(src.lVal # 0))
          [] src.vt = "VT_EMPTY" -> ChangeOk(from_bool(FALSE))
          [] src.vt = "VT_BSTR" ->
               IF ~IsNumeral(src.bstrVal) THEN ChangeFail("DISP_E_TYPEMISMATCH")
               ELSE ChangeOk(from_bool(ParseNumeral(src.bstrVal) # 0))
    ELSE \* vt = "VT_BSTR"
        CASE src.vt = "VT_BSTR" -> ChangeOk([VariantDefault EXCEPT !.vt = "VT_BSTR", !.bstrVal = src.bstrVal])
          [] src.vt = "VT_I4" -> ChangeOk([VariantDefault EXCEPT !.vt = "VT_BSTR", !.bstrVal = FormatNumeral(src.lVal)])
          [] src.vt = "VT_BOOL" -> ChangeOk([VariantDefault EXCEPT !.vt = "VT_BSTR", !.bstrVal = FormatNumeral(src.boolVal)])
          [] src.vt = "VT_EMPTY" -> ChangeOk([VariantDefault EXCEPT !.vt = "VT_BSTR"])

\* VariantClear(&mut new): fails only on a tag it does not know
VariantClear(v) == IF v.vt \in VarTags THEN "S_OK" ELSE "DISP_E_BADVARTYPE"

\* --------------------------------------------------- VariantExt extractors
\* The outcome of an extraction: the Result (ok, err, and the value in the
\* field of its kind), and what the call did on the way: the payload reads
\* (which VARIANT, under which tag), the coerced copy, the number of
\* VariantClear calls on that copy, and the source as the call leaves it.
NoValue == [n |-> 0, s |-> <<>>, b |-> FALSE]

Extracted(kind, self, ct, value, reads, clears, err) ==
    [kind |-> kind, ok |-> (err = "none"), err |-> err,
     n |-> value.n, s |-> value.s, b |-> value.b,
     reads |-> reads, change |-> ct.hr, new |-> ct.dest, clears |-> clears,
     self |-> self]

\* to_i32 reading lVal of the source when the coercion fails
to_i32_assumed(self) ==
    LET ct == VariantChangeType(self, "VT_I4")
        value == [NoValue EXCEPT !.n = ct.dest.lVal]
        read == <<[of |-> "new", vt |-> ct.dest.vt, field |-> "lVal"]>>
    IN  IF ct.hr # "S_OK"
        THEN Extracted("to_i32", self, ct, [NoValue EXCEPT !.n = self.lVal],
                       <<[of |-> "self", vt |-> self.vt, field |-> "lVal"]>>, 0, "none")
        ELSE IF VariantClear(ct.dest) # "S_OK"
        THEN Extracted("to_i32", self, ct, NoValue, read, 1, "VariantClear")
        ELSE Extracted("to_i32", self, ct, value, read, 1, "none")

to_i32(self) ==
    LET ct == VariantChangeType(self, "VT_I4")
        value == [NoValue EXCEPT !.n = ct.dest.lVal]
        read == <<[of |-> "new", vt |-> ct.dest.vt, field |-> "lVal"]>>
    IN  IF ct.hr # "S_OK"
        THEN Extracted("to_i32", self, ct, NoValue, <<>>, 0, "VariantChangeType")
        ELSE IF VariantClear(ct.dest) # "S_OK"
        THEN Extracted("to_i32", self, ct, NoValue, read, 1, "VariantClear")
        ELSE Extracted("to_i32", self, ct, value, read, 1, "none")

to_string(self) ==
    LET ct == VariantChangeType(self, "VT_BSTR")
        value == [NoValue EXCEPT !.s = DecodeUtf16(ct.dest.bstrVal)]
        read == <<[of |-> "new", vt |-> ct.dest.vt, field |-> "bstrVal"]>>
    IN  IF ct.hr # "S_OK"
        THEN Extracted("to_string", self, ct, NoValue, <<>>, 0, "VariantChangeType")
        ELSE IF VariantClear(ct.dest) # "S_OK"
        THEN Extracted("to_string", self, ct, NoValue, read, 1, "VariantClear")
        ELSE Extracted("to_string", self, ct, value, read, 1, "none")

to_bool(self) ==
    LET ct == VariantChangeType(self, "VT_BOOL")
        value == [NoValue EXCEPT !.b = (ct.dest.boolVal # 0)]
        read == <<[of |-> "new", vt |-> ct.dest.vt, field |-> "boolVal"]>>
    IN  IF ct.hr # "S_OK"
        THEN Extracted("to_bool", self, ct, NoValue, <<>>, 0, "VariantChangeType")
        ELSE IF VariantClear(ct.dest) # "S_OK"
        THEN Extracted("to_bool", self, ct, NoValue, read, 1, "VariantClear")
        ELSE Extracted("to_bool", self, ct, value, read, 1, "none")

NoExtraction ==
    [kind |-> "none", ok |-> FALSE, err |-> "none", n |-> 0, s |-> <<>>, b |-> FALSE,
     reads |-> <<>>, change |-> "none", new |-> VariantDefault, clears |-> 0,
     self |-> VariantDefault]

\* -------------------------------------------------------------- ComObject
\* ProgIDs the facade binds (lib.rs); ComObject::new/get take any of them
ClassIds ==
    {"CeVIO.Talk.RemoteService2.Talker2", "CeVIO.Talk.RemoteService2.ServiceControl2",
     "CeVIO.Talk.RemoteService.Talker", "CeVIO.Talk.RemoteService.ServiceControl"}

\* What the operating environment answers to ComObject::new: CLSIDFromString,
\* CoCreateInstance(CLSCTX_ALL) and CoCreateInstance(CLSCTX_LOCAL_SERVER)
HrClsid == {"S_OK", "CO_E_CLASSSTRING"}
HrCreateAll == {"S_OK", "REGDB_E_CLASSNOTREG"}
HrCreateLocal == {"S_OK", "REGDB_E_CLASSNOTREG", "CO_E_SERVER_EXEC_FAILURE"}
CreateEnvs == [clsid : HrClsid, all : HrCreateAll, local : HrCreateLocal]

NoObject ==
    [fn |-> "none", id |-> "", ok |-> FALSE, some |-> FALSE, err |-> "none", hr |-> "none",
     activations |-> <<>>]

\* ComObject::new giving up after the first activation attempt
ComObject_new_nofallback(id, env) ==
    LET base == [NoObject EXCEPT !.fn = "new", !.id = id]
    IN  IF env.clsid # "S_OK"
        THEN [base EXCEPT !.err = "CLSIDFromString", !.hr = env.clsid]
        ELSE IF env.all = "S_OK"
        THEN [base EXCEPT !.ok = TRUE, !.some = TRUE, !.hr = "S_OK",
                          !.activations = <<"CLSCTX_ALL">>]
        ELSE [base EXCEPT !.err = "CoCreateInstance", !.hr = env.all,
                          !.activations = <<"CLSCTX_ALL">>]

\* ComObject::new(id)
ComObject_new(id, env) ==
    LET base == [NoObject EXCEPT !.fn = "new", !.id = id]
    IN  IF env.clsid # "S_OK"
        THEN [base EXCEPT !.err = "CLSIDFromString", !.hr = env.clsid]
        ELSE IF env.all = "S_OK"
        THEN [base EXCEPT !.ok = TRUE, !.some = TRUE, !.hr = "S_OK",
                          !.activations = <<"CLSCTX_ALL">>]
        ELSE IF env.local = "S_OK"
        THEN [base EXCEPT !.ok = TRUE, !.some = TRUE, !.hr = "S_OK",
                          !.activations = <<"CLSCTX_ALL", "CLSCTX_LOCAL_SERVER">>]
        ELSE [base EXCEPT !.err = "CoCreateInstance", !.hr = env.local,
                          !.activations = <<"CLSCTX_ALL", "CLSCTX_LOCAL_SERVER">>]

\* The running object table, as ComObject::get finds it for a class: no
\* instance registered, an instance that supports IDispatch, or one that
\* does not.
Running == {"none", "dispatch", "nodispatch"}

\* GetActiveObject(&rclsid, null, &mut ppunk): S_OK and the object when an
\* instance of the class is registered, MK_E_UNAVAILABLE and no object when
\* none is.
GetActiveObject(running) ==
    IF running = "none" THEN [hr |-> "MK_E_UNAVAILABLE", ppunk |-> "None"]
    ELSE [hr |-> "S_OK", ppunk |-> running]

\* ComObject::get(id)
ComObject_get(id, clsid, running) ==
    LET base == [NoObject EXCEPT !.fn = "get", !.id = id]
        active == GetActiveObject(running)
    IN  IF clsid # "S_OK"
        THEN [base EXCEPT !.err = "CLSIDFromString", !.hr = clsid]
        ELSE IF active.hr # "S_OK"
        THEN [base EXCEPT !.err = "GetActiveObject", !.hr = active.hr]
        ELSE IF active.ppunk = "None"
        THEN [base EXCEPT !.ok = TRUE, !.hr = "S_OK"]
        ELSE IF active.ppunk = "nodispatch"
        THEN [base EXCEPT !.err = "cast", !.hr = "E_NOINTERFACE"]
        ELSE [base EXCEPT !.ok = TRUE, !.some = TRUE, !.hr = "S_OK"]

\* Members of the two automation interfaces, and the identifier the host
\* binds to each
MemberNames ==
    <<"StartHost", "CloseHost", "HostVersion", "InterfaceVersion", "Volume", "Speed",
      "Tone", "ToneScale", "Alpha", "Cast", "AvailableCasts", "Speak", "GetPhonemes",
      "OutputWaveToFile">>

DispIdOf(name) == CHOOSE i \in 1..Len(MemberNames) : MemberNames[i] = name

DISPID_PROPERTYPUT == -3

\* What the host answers to one call: GetIDsOfNames, Invoke, and the VARIANT
\* Invoke stores in the result
HostResults ==
    {VariantDefault, null, from_safearray(1)}
        \cup {from_i32(n) : n \in I32Samples}
        \cup {from_bool(b) : b \in BOOLEAN}
        \cup {from_str(s) : s \in ShortTexts}
HostEnvs ==
    [name : {"DISP_E_UNKNOWNNAME"}, invoke : {"S_OK"}, ret : {VariantDefault}]
        \cup [name : {"S_OK"}, invoke : {"DISP_E_EXCEPTION"}, ret : {VariantDefault}]
        \cup [name : {"S_OK"}, invoke : {"S_OK"}, ret : HostResults]

\* DISPPARAMS::default()
DispParamsDefault ==
    [rgvarg |-> <<>>, rgdispidNamedArgs |-> <<>>, cArgs |-> 0, cNamedArgs |-> 0]

\* ComObject::get_id_from_name
get_id_from_name(name, env) ==
    IF env.name = "S_OK" THEN [ok |-> TRUE, hr |-> "S_OK", rgdispid |-> DispIdOf(name)]
    ELSE [ok |-> FALSE, hr |-> env.name, rgdispid |-> 0]

\* ComObject::invoke: one IDispatch::Invoke; the result VARIANT on success
invoke(dispidmember, pdispparams, wflags, env) ==
    [ok |-> (env.invoke = "S_OK"), hr |-> env.invoke,
     result |-> IF env.invoke = "S_OK" THEN env.ret ELSE VariantDefault,
     dispidmember |-> dispidmember, pdispparams |-> pdispparams, wflags |-> wflags]

\* The outcome of get_property / set_property / invoke_method: the Result
\* (ok, err, ret), the steps performed in order, the VARIANTs the caller
\* handed over, each Invoke made with the arguments it was handed, and the
\* VARIANTs VariantClear was called on.
NoCall ==
    [fn |-> "none", name |-> "", args |-> <<>>, steps |-> <<>>, ok |-> FALSE,
     err |-> "none", hr |-> "none", ret |-> VariantDefault, invoked |-> <<>>,
     cleared |-> <<>>]

NameFailed(fn, name, args, id) ==
    [NoCall EXCEPT !.fn = fn, !.name = name, !.args = args,
                   !.steps = <<"get_id_from_name">>,
                   !.err = "get_id_from_name", !.hr = id.hr]

Invoked(fn, name, args, inv) ==
    [NoCall EXCEPT !.fn = fn, !.name = name, !.args = args,
                   !.steps = <<"get_id_from_name", "invoke">>,
                   !.ok = inv.ok, !.err = IF inv.ok THEN "none" ELSE "invoke",
                   !.hr = inv.hr, !.ret = inv.result,
                   !.invoked = <<[dispidmember |-> inv.dispidmember,
                                  pdispparams |-> inv.pdispparams,
                                  wflags |-> inv.wflags, ok |-> inv.ok,
                                  result |-> inv.result]>>]

\* Option<VARIANT> as a sequence of at most one VARIANT
get_property(prop, param, env) ==
    LET id == get_id_from_name(prop, env)
        args == param
        pdispparams == [DispParamsDefault EXCEPT !.cArgs = Len(args), !.rgvarg = args]
    IN  IF ~id.ok THEN NameFailed("get_property", prop, param, id)
        ELSE Invoked("get_property", prop, param,
                     invoke(id.rgdispid, pdispparams, "DISPATCH_PROPERTYGET", env))

set_property(prop, param, value, env) ==
    LET id == get_id_from_name(prop, env)
        args == IF param # <<>> THEN <<param[1], value>> ELSE <<value>>
        named_args == <<DISPID_PROPERTYPUT>>
        pdispparams == [DispParamsDefault EXCEPT !.cArgs = Len(args), !.rgvarg = args,
                                                 !.cNamedArgs = 1,
                                                 !.rgdispidNamedArgs = named_args]
        inv == invoke(id.rgdispid, pdispparams, "DISPATCH_PROPERTYPUT", env)
    IN  IF ~id.ok THEN NameFailed("set_property", prop, param \o <<value>>, id)
        ELSE [Invoked("set_property", prop, param \o <<value>>, inv)
                  EXCEPT !.ret = VariantDefault]

RECURSIVE Reverse(_)
Reverse(s) == IF s = <<>> THEN <<>> ELSE Reverse(Tail(s)) \o <<Head(s)>>

\* invoke_method going on to invoke, with identifier 0, when the name did not
\* resolve
invoke_method_unchecked(method, args, env) ==
    LET id == get_id_from_name(method, env)
        reversed == Reverse(args)
        pdispparams == [DispParamsDefault EXCEPT !.cArgs = Len(reversed),
                                                 !.rgvarg = reversed]
    IN  Invoked("invoke_method", method, args,
                invoke(id.rgdispid, pdispparams, "DISPATCH_METHOD", env))

\* invoke_method without args.reverse()
invoke_method_unreversed(method, args, env) ==
    LET id == get_id_from_name(method, env)
        pdispparams == [DispParamsDefault EXCEPT !.cArgs = Len(args), !.rgvarg = args]
    IN  IF ~id.ok THEN NameFailed("invoke_method", method, args, id)
        ELSE Invoked("invoke_method", method, args,
                     invoke(id.rgdispid, pdispparams, "DISPATCH_METHOD", env))

invoke_method(method, args, env) ==
    LET id == get_id_from_name(method, env)
        reversed == Reverse(args)
        pdispparams == [DispParamsDefault EXCEPT !.cArgs = Len(reversed),
                                                 !.rgvarg = reversed]
    IN  IF ~id.ok THEN NameFailed("invoke_method", method, args, id)
        ELSE Invoked("invoke_method", method, args,
                     invoke(id.rgdispid, pdispparams, "DISPATCH_METHOD", env))

\* ------------------------------------------------------------------ facade
\* format!: the text "Failed to call {method_name} in fn {fn_name}" (each
\* name between grave accents), kept as its pieces
make_error_message(method_name, fn_name) ==
    <<"Failed to call ", method_name, " in fn ", fn_name>>

NoArg == [n |-> 0, b |-> FALSE, text |-> <<>>, path |-> <<>>]

\* The outcome of one facade function: the function called and its native
\* arguments, the handle it used, the ComObject call, the extraction of the
\* result (when the function has one and the call succeeded), the Result
\* (ok and, on failure, the context message of the CeVIOError).
NoOp ==
    [fn |-> "none", handle |-> "none", arg |-> NoArg, call |-> NoCall,
     extraction |-> NoExtraction, ok |-> FALSE, context |-> <<>>]

\* call.with_context(callCtx)? then .to_x().with_context(exCtx)
Extracting(fn, handle, arg, call, callCtx, ex, exCtx) ==
    LET base == [NoOp EXCEPT !.fn = fn, !.handle = handle, !.arg = arg, !.call = call]
    IN  IF ~call.ok THEN [base EXCEPT !.context = callCtx]
        ELSE IF ~ex.ok THEN [base EXCEPT !.extraction = ex, !.context = exCtx]
        ELSE [base EXCEPT !.extraction = ex, !.ok = TRUE]

\* call.with_context(callCtx)?; Ok(())   and   call.with_context(callCtx)
Calling(fn, handle, arg, call, callCtx) ==
    LET base == [NoOp EXCEPT !.fn = fn, !.handle = handle, !.arg = arg, !.call = call]
    IN  IF ~call.ok THEN [base EXCEPT !.context = callCtx]
        ELSE [base EXCEPT !.ok = TRUE]

start_host(no_wait, env) ==
    LET call == invoke_method("StartHost", <<from_bool(no_wait)>>, env)
    IN  Extracting("start_host", "controller", [NoArg EXCEPT !.b = no_wait], call,
                   make_error_message("invoke_method", "start_host"),
                   to_i32(call.ret), make_error_message("to_i32", "start_host"))

close_host(mode, env) ==
    Calling("close_host", "controller", [NoArg EXCEPT !.n = mode],
            invoke_method("CloseHost", <<from_i32(mode)>>, env),
            make_error_message("invoke_method", "close_host"))

get_host_version(env) ==
    LET call == get_property("HostVersion", <<>>, env)
    IN  Extracting("get_host_version", "controller", NoArg, call,
                   make_error_message("get_property", "get_host_version"),
                   to_string(call.ret), make_error_message("to_string", "get_host_version"))

get_interface_version(env) ==
    LET call == get_property("InterfaceVersion", <<>>, env)
    IN  Extracting("get_interface_version", "controller", NoArg, call,
                   make_error_message("get_property", "get_interface_version"),
                   to_string(call.ret), make_error_message("to_string", "get_interface_version"))

get_is_host_started(env) ==
    LET call == get_property("InterfaceVersion", <<>>, env)
    IN  Extracting("get_is_host_started", "controller", NoArg, call,
                   make_error_message("get_property", "get_is_host_started"),
                   to_bool(call.ret), make_error_message("to_bool", "get_is_host_started"))

get_volume(env) ==
    LET call == get_property("Volume", <<>>, env)
    IN  Extracting("get_volume", "talker", NoArg, call,
                   make_error_message("get_property", "get_volume"),
                   to_i32(call.ret), make_error_message("to_i32", "get_volume"))

get_speed(env) ==
    LET call == get_property("Speed", <<>>, env)
    IN  Extracting("get_speed", "talker", NoArg, call,
                   make_error_message("get_property", "get_speed"),
                   to_i32(call.ret), make_error_message("to_i32", "get_speed"))

get_tone(env) ==
    LET call == get_property("Tone", <<>>, env)
    IN  Extracting("get_tone", "talker", NoArg, call,
                   make_error_message("get_property", "get_tone"),
                   to_i32(call.ret), make_error_message("to_i32", "get_tone"))

get_tone_scale(env) ==
    LET call == get_property("ToneScale", <<>>, env)
    IN  Extracting("get_tone_scale", "talker", NoArg, call,
                   make_error_message("get_property", "get_tone_scale"),
                   to_i32(call.ret), make_error_message("to_i32", "get_tone_scale"))

get_alpha(env) ==
    LET call == get_property("Alpha", <<>>, env)
    IN  Extracting("get_alpha", "talker", NoArg, call,
                   make_error_message("get_property", "get_alpha"),
                   to_i32(call.ret), make_error_message("to_i32", "get_alpha"))

get_cast(env) ==
    LET call == get_property("Cast", <<>>, env)
    IN  Extracting("get_cast", "talker", NoArg, call,
                   make_error_message("get_property", "get_cast"),
                   to_string(call.ret), make_error_message("to_string", "get_cast"))

get_available_casts(env) ==
    LET call == get_property("AvailableCasts", <<>>, env)
    IN  Extracting("get_available_casts", "talker", NoArg, call,
                   make_error_message("get_property", "get_available_casts"),
                   to_string(call.ret), make_error_message("to_string", "get_available_casts"))

\* set_volume clamping the value to 0..100 before sending it
set_volume_clamped(volume, env) ==
    LET sent == IF volume < 0 THEN 0 ELSE IF volume > 100 THEN 100 ELSE volume
    IN  Calling("set_volume", "talker", [NoArg EXCEPT !.n = volume],
                set_property("Volume", <<>>, from_i32(sent), env),
                make_error_message("set_property", "set_volume"))

set_volume(volume, env) ==
    Calling("set_volume", "talker", [NoArg EXCEPT !.n = volume],
            set_property("Volume", <<>>, from_i32(volume), env),
            make_error_message("set_property", "set_volume"))

set_speed(speed, env) ==
    Calling("set_speed", "talker", [NoArg EXCEPT !.n = speed],
            set_property("Speed", <<>>, from_i32(speed), env),
            make_error_message("set_property", "set_speed"))

set_tone(tone, env) ==
    Calling("set_tone", "talker", [NoArg EXCEPT !.n = tone],
            set_property("Tone", <<>>, from_i32(tone), env),
            make_error_message("set_property", "set_tone"))

set_tone_scale(tone_scale, env) ==
    Calling("set_tone_scale", "talker", [NoArg EXCEPT !.n = tone_scale],
            set_property("ToneScale", <<>>, from_i32(tone_scale), env),
            make_error_message("set_property", "set_tone_scale"))

set_alpha(alpha, env) ==
    Calling("set_alpha", "talker", [NoArg EXCEPT !.n = alpha],
            set_property("Alpha", <<>>, from_i32(alpha), env),
            make_error_message("set_property", "set_alpha"))

set_cast(cast, env) ==
    Calling("set_cast", "talker", [NoArg EXCEPT !.text = cast],
            set_property("Cast", <<>>, from_str(cast), env),
            make_error_message("set_property", "set_cast"))

speak(text, env) ==
    Calling("speak", "talker", [NoArg EXCEPT !.text = text],
            invoke_method("Speak", <<from_str(text)>>, env),
            make_error_message("invoke_method", "speak"))

get_phonemes(text, env) ==
    Calling("get_phonemes", "talker", [NoArg EXCEPT !.text = text],
            invoke_method("GetPhonemes", <<from_str(text)>>, env),
            make_error_message("invoke_method", "get_phonemes"))

output_wave_to_file(text, path, env) ==
    Calling("output_wave_to_file", "talker", [NoArg EXCEPT !.text = text, !.path = path],
            invoke_method("OutputWaveToFile", <<from_str(text), from_str(path)>>, env),
            make_error_message("invoke_method", "speak"))

\* ------------------------------------------------------------------- state
VARIABLES
    mv,        \* SpecMarshal: the VARIANT last built and the native value it came from
    mout,      \* SpecMarshal: the outcome of the last extraction from mv
    comEnv,    \* SpecCom: what the environment answered to the last new / get
    comObj,    \* SpecCom: the outcome of the last ComObject::new / ComObject::get
    comCall,   \* SpecCom: the outcome of the last call on the handle of comObj
    phase,     \* Spec: "start", "failed" (constructor returned Err), "alive", "dropped"
    coInit,    \* Spec: the COM subsystem is initialized on this thread
    ctor,      \* Spec: the constructor called and what each of its steps returned
    lifeLog,   \* Spec: CoInitializeEx, CoUninitialize, handle creations and releases, in order
    host,      \* Spec: what the host answered to the last facade function
    last       \* Spec: the outcome of the last facade function

vars == <<mv, mout, comEnv, comObj, comCall, phase, coInit, ctor, lifeLog, host, last>>
marshalVars == <<mv, mout>>
comVars == <<comEnv, comObj, comCall>>
facadeVars == <<phase, coInit, ctor, lifeLog, host, last>>

NoNative == [kind |-> "none", n |-> 0, s |-> <<>>, b |-> FALSE, v |-> VariantDefault]
NoComEnv == [clsid |-> "none", all |-> "none", local |-> "none", running |-> "none"]
NoHost == [name |-> "none", invoke |-> "none", ret |-> VariantDefault]
NoCtor == [fn |-> "none", init |-> "none", talker |-> NoObject, controller |-> NoObject]

Init ==
    /\ mv = NoNative
    /\ mout = NoExtraction
    /\ comEnv = NoComEnv
    /\ comObj = NoObject
    /\ comCall = NoCall
    /\ phase = "start"
    /\ coInit = FALSE
    /\ ctor = NoCtor
    /\ lifeLog = <<>>
    /\ host = NoHost
    /\ last = NoOp

\* ------------------------------------------------- SpecMarshal: VariantExt
Built(kind, n, s, b, v) ==
    /\ mv' = [kind |-> kind, n |-> n, s |-> s, b |-> b, v |-> v]
    /\ mout' = NoExtraction
    /\ UNCHANGED <<comVars, facadeVars>>

FromI32 == \E n \in I32Samples : Built("i32", n, <<>>, FALSE, from_i32(n))
FromStr == \E s \in Texts : Built("str", 0, s, FALSE, from_str(s))
FromBool == \E b \in BOOLEAN : Built("bool", 0, <<>>, b, from_bool(b))
Null == Built("null", 0, <<>>, FALSE, null)
FromSafearray == \E psa \in 1..2 : Built("safearray", psa, <<>>, FALSE, from_safearray(psa))

Extract(ex) ==
    /\ mv.kind # "none"
    /\ mout' = ex
    /\ mv' = [mv EXCEPT !.v = ex.self]
    /\ UNCHANGED <<comVars, facadeVars>>

ToI32 == Extract(to_i32(mv.v))
ToString == Extract(to_string(mv.v))
ToBool == Extract(to_bool(mv.v))

NextMarshal ==
    \/ FromI32 \/ FromStr \/ FromBool \/ Null \/ FromSafearray
    \/ ToI32 \/ ToString \/ ToBool

SpecMarshal == Init /\ [][NextMarshal]_vars

\* ------------------------------------------------------ SpecCom: ComObject
ComNames == {"Volume", "Cast", "OutputWaveToFile"}
ArgValues == {from_i32(1), from_bool(TRUE), from_str(<<49>>)}
ArgLists == UNION {[1..k -> ArgValues] : k \in 0..MaxArgs}
Params == {<<>>} \cup {<<a>> : a \in ArgValues}
\* the host's answers to a call made on the handle directly
ComHostEnvs ==
    {env \in HostEnvs : env.ret \in {VariantDefault, from_i32(1), from_str(<<49>>)}}

ComNew ==
    /\ comCall = NoCall
    /\ \E id \in ClassIds, env \in CreateEnvs :
           /\ comObj' = ComObject_new(id, env)
           /\ comEnv' = [NoComEnv EXCEPT !.clsid = env.clsid, !.all = env.all,
                                         !.local = env.local]
    /\ UNCHANGED <<comCall, marshalVars, facadeVars>>

ComGet ==
    /\ comCall = NoCall
    /\ \E id \in ClassIds, clsid \in HrClsid, running \in Running :
           /\ comObj' = ComObject_get(id, clsid, running)
           /\ comEnv' = [NoComEnv EXCEPT !.clsid = clsid, !.running = running]
    /\ UNCHANGED <<comCall, marshalVars, facadeVars>>

\* a call is made on a handle, after the previous call has returned
ComReady == comObj.some /\ comCall = NoCall

ComCalled(call) ==
    /\ comCall' = call
    /\ UNCHANGED <<comEnv, comObj, marshalVars, facadeVars>>

ComGetProperty ==
    ComReady /\ \E prop \in ComNames, param \in Params, env \in ComHostEnvs :
        ComCalled(get_property(prop, param, env))

ComSetProperty ==
    ComReady /\ \E prop \in ComNames, param \in Params, value \in ArgValues, env \in ComHostEnvs :
        ComCalled(set_property(prop, param, value, env))

ComInvokeMethod ==
    ComReady /\ \E method \in ComNames, args \in ArgLists, env \in ComHostEnvs :
        ComCalled(invoke_method(method, args, env))

\* the caller takes the Result; the handle keeps nothing of the call
ComReturn ==
    /\ comCall # NoCall
    /\ comCall' = NoCall
    /\ last' = NoOp
    /\ UNCHANGED <<comEnv, comObj, marshalVars, phase, coInit, ctor, lifeLog, host>>

\* output_wave_to_file with the handle as its talker: the call it makes on
\* the handle, and in last the function with its native arguments
TalkerOutputWaveToFile ==
    /\ ComReady
    /\ \E text \in ShortTexts, path \in ShortTexts, env \in ComHostEnvs :
           /\ last' = output_wave_to_file(text, path, env)
           /\ comCall' = last'.call
    /\ UNCHANGED <<comEnv, comObj, marshalVars, phase, coInit, ctor, lifeLog, host>>

NextCom ==
    \/ ComNew \/ ComGet \/ ComGetProperty \/ ComSetProperty \/ ComInvokeMethod
    \/ TalkerOutputWaveToFile \/ ComReturn

SpecCom == Init /\ [][NextCom]_vars

\* ------------------------------------------------- Spec: the CeVIO facade
\* Initialize::new: CoInitializeEx(COINIT_APARTMENTTHREADED | COINIT_DISABLE_OLE1DDE);
\* S_FALSE (already initialized on this thread) is a success code
HrInit == {"S_OK", "S_FALSE", "RPC_E_CHANGED_MODE"}
Initialize_new(hr) == [ok |-> hr \in {"S_OK", "S_FALSE"}, hr |-> hr]

\* The fields of struct CeVIO in declaration order, the order Rust drops them in
CeVIOFields == <<"_init", "talker", "controller">>

\* DropEvent for an Initialize whose drop does not call CoUninitialize
DropEvent_forgotten(field) == field \o ".Release"

\* Drop for Initialize calls CoUninitialize; dropping a ComObject releases
\* its IDispatch reference
DropEvent(field) == IF field = "_init" THEN "CoUninitialize" ELSE field \o ".Release"

RECURSIVE DropAll(_)
DropAll(fields) ==
    IF fields = <<>> THEN <<>> ELSE <<DropEvent(Head(fields))>> \o DropAll(Tail(fields))

\* Self { _init: Initialize::new()?, talker: ComObject::new(..)?,
\*        controller: ComObject::new(..)? }: a failing step returns the error
\* and drops what the earlier steps made, the latest first
Construct(fn, talkerId, controllerId) ==
    /\ phase = "start"
    /\ \E hr \in HrInit, envT \in CreateEnvs, envC \in CreateEnvs :
         LET init == Initialize_new(hr)
             t == ComObject_new(talkerId, envT)
             c == ComObject_new(controllerId, envC)
         IN  IF ~init.ok
             THEN /\ phase' = "failed"
                  /\ ctor' = [NoCtor EXCEPT !.fn = fn, !.init = hr]
                  /\ lifeLog' = <<"CoInitializeEx">>
                  /\ coInit' = FALSE
             ELSE IF ~t.ok
             THEN /\ phase' = "failed"
                  /\ ctor' = [NoCtor EXCEPT !.fn = fn, !.init = hr, !.talker = t]
                  /\ lifeLog' = <<"CoInitializeEx", "talker.new">>
                                    \o DropAll(<<"_init">>)
                  /\ coInit' = FALSE
             ELSE IF ~c.ok
             THEN /\ phase' = "failed"
                  /\ ctor' = [fn |-> fn, init |-> hr, talker |-> t, controller |-> c]
                  /\ lifeLog' = <<"CoInitializeEx", "talker.new", "controller.new">>
                                    \o DropAll(<<"talker", "_init">>)
                  /\ coInit' = FALSE
             ELSE /\ phase' = "alive"
                  /\ ctor' = [fn |-> fn, init |-> hr, talker |-> t, controller |-> c]
                  /\ lifeLog' = <<"CoInitializeEx", "talker.new", "controller.new">>
                  /\ coInit' = TRUE
    /\ UNCHANGED <<host, last, marshalVars, comVars>>

New == Construct("new", "CeVIO.Talk.RemoteService2.Talker2",
                 "CeVIO.Talk.RemoteService2.ServiceControl2")
NewCevio == Construct("new_cevio", "CeVIO.Talk.RemoteService.Talker",
                      "CeVIO.Talk.RemoteService.ServiceControl")
NewCevioAi == Construct("new_cevio_ai", "CeVIO.Talk.RemoteService2.Talker2",
                        "CeVIO.Talk.RemoteService2.ServiceControl2")

\* The facade goes out of scope, no call on it being in progress: its fields
\* are dropped in declaration order
Drop ==
    /\ phase = "alive"
    /\ last = NoOp
    /\ phase' = "dropped"
    /\ lifeLog' = lifeLog \o DropAll(CeVIOFields)
    /\ coInit' = FALSE
    /\ UNCHANGED <<ctor, host, last, marshalVars, comVars>>

\* A facade function runs on a live facade (&self), after the previous
\* call has returned
Ready == phase = "alive" /\ last = NoOp

Op(outcome, env) ==
    /\ last' = outcome
    /\ host' = env
    /\ UNCHANGED <<phase, coInit, ctor, lifeLog, marshalVars, comVars>>

StartHost == Ready /\ \E no_wait \in BOOLEAN, env \in HostEnvs : Op(start_host(no_wait, env), env)
CloseHost == Ready /\ \E mode \in I32Samples, env \in HostEnvs : Op(close_host(mode, env), env)
GetHostVersion == Ready /\ \E env \in HostEnvs : Op(get_host_version(env), env)
GetInterfaceVersion == Ready /\ \E env \in HostEnvs : Op(get_interface_version(env), env)
GetIsHostStarted == Ready /\ \E env \in HostEnvs : Op(get_is_host_started(env), env)
GetVolume == Ready /\ \E env \in HostEnvs : Op(get_volume(env), env)
GetSpeed == Ready /\ \E env \in HostEnvs : Op(get_speed(env), env)
GetTone == Ready /\ \E env \in HostEnvs : Op(get_tone(env), env)
GetToneScale == Ready /\ \E env \in HostEnvs : Op(get_tone_scale(env), env)
GetAlpha == Ready /\ \E env \in HostEnvs : Op(get_alpha(env), env)
GetCast == Ready /\ \E env \in HostEnvs : Op(get_cast(env), env)
GetAvailableCasts == Ready /\ \E env \in HostEnvs : Op(get_available_casts(env), env)
SetVolume == Ready /\ \E n \in I32Samples, env \in HostEnvs : Op(set_volume(n, env), env)
SetSpeed == Ready /\ \E n \in I32Samples, env \in HostEnvs : Op(set_speed(n, env), env)
SetTone == Ready /\ \E n \in I32Samples, env \in HostEnvs : Op(set_tone(n, env), env)
SetToneScale == Ready /\ \E n \in I32Samples, env \in HostEnvs : Op(set_tone_scale(n, env), env)
SetAlpha == Ready /\ \E n \in I32Samples, env \in HostEnvs : Op(set_alpha(n, env), env)
SetCast == Ready /\ \E cast \in ShortTexts, env \in HostEnvs : Op(set_cast(cast, env), env)
Speak == Ready /\ \E text \in ShortTexts, env \in HostEnvs : Op(speak(text, env), env)
GetPhonemes == Ready /\ \E text \in ShortTexts, env \in HostEnvs : Op(get_phonemes(text, env), env)
OutputWaveToFile ==
    Ready /\ \E text \in ShortTexts, path \in ShortTexts, env \in HostEnvs :
        Op(output_wave_to_file(text, path, env), env)

\* the caller takes the Result; the facade keeps nothing of the call
Return ==
    /\ last # NoOp
    /\ last' = NoOp
    /\ host' = NoHost
    /\ UNCHANGED <<phase, coInit, ctor, lifeLog, marshalVars, comVars>>

Next ==
    \/ New \/ NewCevio \/ NewCevioAi \/ Drop \/ Return
    \/ StartHost \/ CloseHost
    \/ GetHostVersion \/ GetInterfaceVersion \/ GetIsHostStarted \/ GetVolume \/ GetSpeed
    \/ GetTone \/ GetToneScale \/ GetAlpha \/ GetCast \/ GetAvailableCasts
    \/ SetVolume \/ SetSpeed \/ SetTone \/ SetToneScale \/ SetAlpha
    \/ SetCast \/ Speak \/ GetPhonemes \/ OutputWaveToFile

Spec == Init /\ [][Next]_vars

\* ================================================================== claims

\* C1: in the life of a facade that was constructed, no call is made on the
\* talker or the controller handle, their final Release included, after
\* CoUninitialize has run.
C1_HandlesReleasedBeforeUninit ==
    phase \in {"alive", "dropped"} =>
        /\ \A i, j \in 1..Len(lifeLog) :
               (i < j /\ lifeLog[i] = "CoUninitialize")
                   => lifeLog[j] \notin {"talker.Release", "controller.Release"}
        /\ last # NoOp => coInit

\* C2: in every facade function, each VARIANT that owns a payload (a text
\* argument built by from_str, the result of invoke, the coerced copy of an
\* extractor) is cleared exactly once, on success and on every failure.
C2_OwnedVariantsClearedOnce ==
    last # NoOp =>
        LET args == last.call.args
            inv == last.call.invoked
            ex == last.extraction
            Clears(role, index) ==
                Cardinality({k \in 1..Len(last.call.cleared) :
                                 last.call.cleared[k] = [role |-> role, index |-> index]})
        IN  /\ \A i \in 1..Len(args) : OwnsPayload(args[i]) => Clears("arg", i) = 1
            /\ \A k \in 1..Len(inv) :
                   (inv[k].ok /\ OwnsPayload(inv[k].result)) => Clears("result", k) = 1
            /\ (ex.change = "S_OK" /\ OwnsPayload(ex.new)) => ex.clears = 1

\* C3: ComObject::get returns Ok(None) when the identifier resolves and no
\* instance of the class is running, and returns an error only when the
\* identifier does not resolve or the object found has no IDispatch.
C3_AttachNotRunningIsEmpty ==
    comObj.fn = "get" =>
        /\ (comEnv.clsid = "S_OK" /\ comEnv.running = "none")
               => (comObj.ok /\ ~comObj.some)
        /\ ~comObj.ok => (comEnv.clsid # "S_OK" \/ comEnv.running = "nodispatch")

\* C4: invoke_method hands invoke the caller's arguments in reverse order,
\* with their count, no named argument and the kind DISPATCH_METHOD; and
\* output_wave_to_file(text, path) hands the host [path, text].
C4_MethodArgumentsReversed ==
    /\ (comCall.fn = "invoke_method" /\ comCall.invoked # <<>>) =>
           LET a == comCall.args
               dp == comCall.invoked[1].pdispparams
           IN  /\ Len(comCall.invoked) = 1
               /\ dp.cArgs = Len(a)
               /\ Len(dp.rgvarg) = Len(a)
               /\ \A i \in 1..Len(a) : dp.rgvarg[i] = a[Len(a) + 1 - i]
               /\ dp.cNamedArgs = 0
               /\ dp.rgdispidNamedArgs = <<>>
               /\ comCall.invoked[1].wflags = "DISPATCH_METHOD"
    /\ (last.fn = "output_wave_to_file" /\ last.call.invoked # <<>>) =>
           LET bstr(v) == DecodeUtf16(v.bstrVal)
               dp == last.call.invoked[1].pdispparams
           IN  /\ dp.cArgs = 2
               /\ <<dp.rgvarg[1].vt, dp.rgvarg[2].vt>> = <<"VT_BSTR", "VT_BSTR">>
               /\ <<bstr(dp.rgvarg[1]), bstr(dp.rgvarg[2])>> = <<last.arg.path, last.arg.text>>
               /\ last.call.invoked[1].wflags = "DISPATCH_METHOD"

C4_Witness ==
    /\ comCall.fn = "invoke_method"
    /\ comCall.args = <<from_i32(1), from_bool(TRUE), from_str(<<49>>)>>
    /\ comCall.invoked # <<>>
    /\ comCall.invoked[1].pdispparams.rgvarg
           = <<from_str(<<49>>), from_bool(TRUE), from_i32(1)>>

\* C5: set_property hands invoke exactly one named argument, DISPID_PROPERTYPUT;
\* the value written is the argument that identifier names (the named
\* arguments are the first cNamedArgs entries of rgvarg); an index parameter
\* is ahead of the value in the list; the count is 1 without a parameter and
\* 2 with one; the kind is DISPATCH_PROPERTYPUT.
C5_ValueIsThePropertyPutArgument ==
    (comCall.fn = "set_property" /\ comCall.invoked # <<>>) =>
        LET a == comCall.args
            value == a[Len(a)]
            dp == comCall.invoked[1].pdispparams
        IN  /\ dp.cNamedArgs = 1
            /\ dp.rgdispidNamedArgs = <<DISPID_PROPERTYPUT>>
            /\ dp.rgvarg[dp.cNamedArgs] = value
            /\ dp.cArgs = Len(a)
            /\ Len(dp.rgvarg) = Len(a)
            /\ Len(a) = 2 => \E i, j \in 1..Len(dp.rgvarg) :
                                 i < j /\ dp.rgvarg[i] = a[1] /\ dp.rgvarg[j] = value
            /\ comCall.invoked[1].wflags = "DISPATCH_PROPERTYPUT"

\* C6: ComObject::new tries CLSCTX_LOCAL_SERVER exactly when the identifier
\* resolved and the CLSCTX_ALL attempt failed, tries nothing when the
\* identifier does not resolve, returns a handle when either attempt
\* succeeds, and returns an error exactly when the identifier does not
\* resolve or both attempts fail, the error then being the second attempt's.
C6_CreateFallsBackOnce ==
    comObj.fn = "new" =>
        LET resolved == comEnv.clsid = "S_OK"
            triedLocal == \E i \in 1..Len(comObj.activations) :
                              comObj.activations[i] = "CLSCTX_LOCAL_SERVER"
        IN  /\ triedLocal <=> (resolved /\ comEnv.all # "S_OK")
            /\ ~resolved => comObj.activations = <<>>
            /\ resolved => comObj.activations[1] = "CLSCTX_ALL"
            /\ Len(comObj.activations) <= 2
            /\ comObj.ok <=> (resolved /\ (comEnv.all = "S_OK" \/ comEnv.local = "S_OK"))
            /\ comObj.ok <=> comObj.some
            /\ (~comObj.ok /\ ~resolved) => comObj.hr = comEnv.clsid
            /\ (~comObj.ok /\ resolved) => comObj.hr = comEnv.local

C6_Witness ==
    /\ comObj.fn = "new"
    /\ comEnv.all # "S_OK"
    /\ comObj.ok
    /\ comObj.activations = <<"CLSCTX_ALL", "CLSCTX_LOCAL_SERVER">>

\* C7: when a facade function fails, the context of its error names the
\* function that was called and the step that failed.
C7_ContextNamesTheFunctionCalled ==
    (last # NoOp /\ ~last.ok) =>
        last.context
            = <<"Failed to call ",
                IF ~last.call.ok THEN last.call.fn ELSE last.extraction.kind,
                " in fn ", last.fn>>

\* C8: a native value built into a VARIANT and extracted as the same type
\* comes back unchanged: i32 (0, negative, minimum, maximum), bool (both
\* states), text (the empty text included).
C8_RoundTrip ==
    /\ (mv.kind = "i32" /\ mout.kind = "to_i32") => (mout.ok /\ mout.n = mv.n)
    /\ (mv.kind = "bool" /\ mout.kind = "to_bool") => (mout.ok /\ mout.b = mv.b)
    /\ (mv.kind = "str" /\ mout.kind = "to_string") => (mout.ok /\ mout.s = mv.s)

C8_Witness ==
    /\ mv.kind = "str"
    /\ mv.s = <<128512, 49>>
    /\ mout.kind = "to_string"
    /\ mout.ok
    /\ mout.s = <<128512, 49>>

\* C9: an extraction whose coercion fails returns the coercion error and no
\* value, reads no payload and clears nothing; a payload is only ever read
\* from the coerced copy, under the requested tag, after VariantChangeType
\* succeeded; the source VARIANT is what it was built as.
C9_FailedCoercionReadsNothing ==
    mout.kind # "none" =>
        LET requested == CASE mout.kind = "to_i32" -> "VT_I4"
                           [] mout.kind = "to_string" -> "VT_BSTR"
                           [] mout.kind = "to_bool" -> "VT_BOOL"
            built == CASE mv.kind = "i32" -> [VariantDefault EXCEPT !.vt = "VT_I4", !.lVal = mv.n]
                       [] mv.kind = "str" -> [VariantDefault EXCEPT !.vt = "VT_BSTR", !.bstrVal = EncodeUtf16(mv.s)]
                       [] mv.kind = "bool" -> [VariantDefault EXCEPT !.vt = "VT_BOOL", !.boolVal = IF mv.b THEN -1 ELSE 0]
                       [] mv.kind = "null" -> [VariantDefault EXCEPT !.vt = "VT_NULL"]
                       [] mv.kind = "safearray" -> [VariantDefault EXCEPT !.vt = "VT_ARRAY|VT_VARIANT", !.parray = mv.n]
        IN  /\ \A i \in 1..Len(mout.reads) :
                   /\ mout.change = "S_OK"
                   /\ mout.reads[i].of = "new"
                   /\ mout.reads[i].vt = requested
            /\ mout.change # "S_OK" =>
                   /\ ~mout.ok
                   /\ mout.err = "VariantChangeType"
                   /\ <<mout.n, mout.s, mout.b>> = <<0, <<>>, FALSE>>
                   /\ mout.reads = <<>>
                   /\ mout.clears = 0
            /\ mout.self = built
            /\ mv.v = built

C9_Witness ==
    /\ mv.kind = "str"
    /\ mv.s = <<97>>
    /\ mout.kind = "to_i32"
    /\ mout.change = "DISP_E_TYPEMISMATCH"
    /\ ~mout.ok

\* C10: the integer setters send any 32-bit value to the host unchanged, as
\* a VT_I4 VARIANT, and succeed exactly when the name resolves and the host
\* accepts the write.
C10_SettersSendValueUnchanged ==
    last.fn \in {"set_volume", "set_speed", "set_tone", "set_tone_scale", "set_alpha"} =>
        /\ host.name = "S_OK" =>
               /\ Len(last.call.invoked) = 1
               /\ last.call.invoked[1].wflags = "DISPATCH_PROPERTYPUT"
               /\ last.call.invoked[1].pdispparams.cArgs = 1
               /\ Len(last.call.invoked[1].pdispparams.rgvarg) = 1
               /\ last.call.invoked[1].pdispparams.rgvarg[1].vt = "VT_I4"
               /\ last.call.invoked[1].pdispparams.rgvarg[1].lVal = last.arg.n
        /\ host.name # "S_OK" => last.call.invoked = <<>>
        /\ last.ok <=> (host.name = "S_OK" /\ host.invoke = "S_OK")

C10_Witness ==
    /\ last.fn = "set_volume"
    /\ last.arg.n = 101
    /\ last.ok
    /\ last.call.invoked[1].pdispparams.rgvarg[1].lVal = 101

\* C11: a facade function resolves the name, invokes, and coerces the
\* result, in that order and each at most once; the name is resolved in
\* every call and its identifier is the one handed to invoke; the first step
\* that fails ends the function with an error and no later step is made; the
\* function returns Ok only when every step it has was made and succeeded.
C11_StepsInOrderFirstFailureEnds ==
    last # NoOp =>
        LET coerces == last.fn \in {"start_host", "get_host_version", "get_interface_version",
                                    "get_is_host_started", "get_volume", "get_speed",
                                    "get_tone", "get_tone_scale", "get_alpha", "get_cast",
                                    "get_available_casts"}
            coerced == last.extraction.kind # "none"
            steps == last.call.steps \o (IF coerced THEN <<"coerce">> ELSE <<>>)
            order == <<"get_id_from_name", "invoke", "coerce">>
        IN  /\ Len(steps) \in 1..3
            /\ \A i \in 1..Len(steps) : steps[i] = order[i]
            /\ Len(last.call.invoked) = (IF Len(last.call.steps) = 2 THEN 1 ELSE 0)
            /\ \A k \in 1..Len(last.call.invoked) :
                   last.call.invoked[k].dispidmember = DispIdOf(last.call.name)
            /\ host.name # "S_OK" => (steps = <<"get_id_from_name">> /\ ~last.ok)
            /\ (host.name = "S_OK" /\ host.invoke # "S_OK")
                   => (steps = <<"get_id_from_name", "invoke">> /\ ~last.ok)
            /\ (host.name = "S_OK" /\ host.invoke = "S_OK")
                   => Len(steps) = (IF coerces THEN 3 ELSE 2)
            /\ (coerced /\ ~last.extraction.ok) => ~last.ok
            /\ last.ok <=> /\ host.name = "S_OK"
                           /\ host.invoke = "S_OK"
                           /\ coerces => last.extraction.ok
            /\ last.ok <=> (last.context = <<>>)

C11_Witness ==
    /\ last.fn = "start_host"
    /\ host.name = "S_OK"
    /\ host.invoke = "DISP_E_EXCEPTION"
    /\ last.call.steps = <<"get_id_from_name", "invoke">>
    /\ last.extraction.kind = "none"
    /\ ~last.ok

\* C12: CoInitializeEx and CoUninitialize are balanced on every path of
\* construction and destruction. A failed initialization is followed by no
\* object creation and no CoUninitialize. A successful one is followed by
\* exactly one CoUninitialize once the constructor has failed (at the talker,
\* or at the controller, the talker made before it then being released too)
\* or the facade has been dropped, and by none while the facade is alive.
C12_InitializeBalanced ==
    LET Count(e) == Cardinality({i \in 1..Len(lifeLog) : lifeLog[i] = e})
        initOk == ctor.init \in {"S_OK", "S_FALSE"}
    IN  /\ Count("CoInitializeEx") = (IF phase = "start" THEN 0 ELSE 1)
        /\ Count("CoUninitialize") <= Count("CoInitializeEx")
        /\ (phase = "failed" /\ ~initOk) =>
               /\ lifeLog = <<"CoInitializeEx">>
               /\ ctor.talker = NoObject
               /\ ctor.controller = NoObject
        /\ (phase = "failed" /\ initOk) =>
               /\ Count("CoUninitialize") = 1
               /\ lifeLog[Len(lifeLog)] = "CoUninitialize"
               /\ ~ctor.talker.ok =>
                      /\ ctor.controller = NoObject
                      /\ Count("controller.new") = 0
                      /\ Count("talker.Release") = 0
               /\ ctor.talker.ok =>
                      /\ ~ctor.controller.ok
                      /\ Count("talker.Release") = 1
               /\ Count("controller.Release") = 0
        /\ phase = "alive" =>
               /\ initOk /\ ctor.talker.ok /\ ctor.controller.ok
               /\ Count("CoUninitialize") = 0
               /\ coInit
        /\ phase = "dropped" =>
               /\ initOk
               /\ Count("CoUninitialize") = 1
               /\ Count("talker.Release") = 1
               /\ Count("controller.Release") = 1
        /\ phase \in {"failed", "dropped"} => ~coInit

C12_Witness ==
    /\ phase = "failed"
    /\ ctor.init = "S_OK"
    /\ ctor.talker.ok
    /\ ~ctor.controller.ok
    /\ lifeLog = <<"CoInitializeEx", "talker.new", "controller.new",
                   "talker.Release", "CoUninitialize">>
====
